---- MODULE Spec2Model ----
(***************************************************************************)
(* Generation admission pipeline of the DonatelloAI backend:               *)
(*   - ModelRouter.generate            (services/models/router.py)         *)
(*   - generate_image endpoint         (api/v1/endpoints/generation.py)    *)
(*   - BudgetService.check_budget_exceeded (services/budget_service.py)    *)
(*   - PromptSecurityValidator.validate, ContentFilter, PIIDetector        *)
(*                                     (services/security/)                *)
(*   - the retry policies              (utils/retry.py)                    *)
(* Money is counted in whole cents (every provider price is a multiple of  *)
(* 0.01 AUD).  An Optional[T] value is a sequence of length 0 (None) or 1. *)
(***************************************************************************)
EXTENDS Integers, Sequences, FiniteSets, TLC

VARIABLES
    providers,      \* ModelRouter.providers: registered providers, in registration order
    department,     \* the Department row: monthly_budget_aud, current_spend_aud, enforcement
    spend0,         \* current_spend_aud of the department at the start of the period
    user_budget,    \* the requester's UserBudget row of the current period
    current_user,   \* the requester: can_generate_images, has_department
    request_data,   \* the GenerateImageRequest the requester submits
    req,            \* per in-flight call of generate_image: its position and locals
    rt,             \* a call of ModelRouter.generate with arbitrary providers
    vd,             \* a call of PromptSecurityValidator.validate
    cf,             \* a call of ContentFilter.filter
    pd,             \* a call of PIIDetector.detect
    cc,             \* a call of PIIDetector._calculate_confidence for a credit card match
    rp,             \* a call of a function decorated with one of the retry policies
    pg,             \* a call of a provider's generate()
    ub,             \* the user_budgets table and the BudgetService calls in flight
    rl,             \* RateLimitMiddleware: the window counters and the requests in flight
    settings        \* the Settings the application runs with

vars == <<providers, department, spend0, user_budget, current_user, request_data, req,
          rt, vd, cf, pd, cc, rp, pg, ub, rl, settings>>

-----------------------------------------------------------------------------
(* Bounds of the model *)

\* concurrent calls of generate_image
MaxRequests == 2
\* images per request (the schema allows 1..4)
MaxImages == 2
\* largest estimate (cents) of a provider registered with the router
MaxEstimate == 3

-----------------------------------------------------------------------------
(* Optional values, Python truthiness *)

None == <<>>
Some(x) == <<x>>
IsNone(o) == Len(o) = 0
Val(o) == o[1]
\* `if max_cost_aud:` is false for None and for Decimal("0")
Truthy(o) == Len(o) = 1 /\ o[1] # 0

-----------------------------------------------------------------------------
(* Providers *)

\* ModelProvider enum members
ModelProvider == {"openai_dalle3", "azure_openai_dalle3", "replicate_sdxl",
                  "adobe_firefly", "azure_ai_image"}

\* the order in which ModelRouter.__init__ registers the providers it has keys for
RegistrationOrder == <<"azure_openai_dalle3", "replicate_sdxl", "adobe_firefly">>

Qualities == {"standard", "hd"}

RECURSIVE SubSeqs(_)
\* all subsequences of s (order kept): the registries the settings can produce
SubSeqs(s) ==
    IF s = <<>> THEN {<<>>}
    ELSE LET rest == SubSeqs(Tail(s))
         IN rest \cup {<<Head(s)>> \o t : t \in rest}

Range(s) == {s[i] : i \in 1..Len(s)}

\* per-image price in cents: DALLE3Provider 0.08 (HD +50%), SDXLProvider 0.02/0.04,
\* FireflyProvider 0.10/0.15
CostPerImage(p, quality) ==
    CASE p = "azure_openai_dalle3" -> IF quality = "hd" THEN 12 ELSE 8
      [] p = "replicate_sdxl"      -> IF quality = "hd" THEN 4 ELSE 2
      [] p = "adobe_firefly"       -> IF quality = "hd" THEN 15 ELSE 10

\* BaseModelProvider.estimate_cost of the three providers
estimate_cost(p, quality, num_images) == CostPerImage(p, quality) * num_images

-----------------------------------------------------------------------------
(* ModelRouter.generate: selection *)

\* a non-strict comparison: the last registered provider would win a tie
CheaperMut(cost, lowest) == cost <= lowest
\* the strict comparison of the automatic selection loop
Cheaper(cost, lowest) == cost < lowest

\* `if max_cost_aud and cost > max_cost_aud`
OverCeiling(cost, max_cost) == Truthy(max_cost) /\ cost > Val(max_cost)

RECURSIVE CheapestFrom(_, _, _, _, _)
\* the loop of lines 118-126 from index i on; acc is cheapest_provider so far
\* (lowest_cost is its estimate)
CheapestFrom(registry, est, max_cost, i, acc) ==
    IF i > Len(registry) THEN acc
    ELSE LET p == registry[i]
             cost == est[p]
         IN IF OverCeiling(cost, max_cost)
            THEN CheapestFrom(registry, est, max_cost, i + 1, acc)
            ELSE IF IsNone(acc) \/ Cheaper(cost, est[Val(acc)])
                 THEN CheapestFrom(registry, est, max_cost, i + 1, Some(p))
                 ELSE CheapestFrom(registry, est, max_cost, i + 1, acc)

\* whether the preferred branch (lines 97-112) returns the preferred provider's result
PreferredTaken(registry, est, preferred, max_cost) ==
    /\ ~IsNone(preferred)
    /\ Val(preferred) \in Range(registry)
    /\ Truthy(max_cost)
    /\ ~(est[Val(preferred)] > Val(max_cost))

\* the provider whose generate() the router awaits (None: the synthetic failure),
\* and the branch that chose it
RouterSelect(registry, est, preferred, max_cost) ==
    IF PreferredTaken(registry, est, preferred, max_cost)
    THEN [path |-> "preferred", provider |-> preferred]
    ELSE LET c == CheapestFrom(registry, est, max_cost, 1, None)
         IN [path |-> IF IsNone(c) THEN "none" ELSE "auto", provider |-> c]

-----------------------------------------------------------------------------
(* ModelRouter.generate called with arbitrary registered providers *)

Registrable == Range(RegistrationOrder)

RouterIdle ==
    [pc |-> "idle", registry |-> <<>>, est |-> [p \in Registrable |-> 0],
     preferred |-> None, max_cost |-> None, path |-> "none", invoked |-> <<>>,
     success |-> FALSE, cost_aud |-> 0]

RouterInit ==
    \E registry \in SubSeqs(RegistrationOrder),
       est \in [Registrable -> 1..MaxEstimate],
       preferred \in {None} \cup {Some(p) : p \in ModelProvider},
       max_cost \in {None} \cup {Some(c) : c \in 0..MaxEstimate} :
        rt = [RouterIdle EXCEPT !.pc = "call", !.registry = registry, !.est = est,
                                !.preferred = preferred, !.max_cost = max_cost]

\* ModelRouter.generate: select, await the selected provider's generate(), return
\* its GenerationResult; the synthetic failure when nothing was selected
RouterGenerate ==
    /\ rt.pc = "call"
    /\ LET sel == RouterSelect(rt.registry, rt.est, rt.preferred, rt.max_cost)
       IN IF IsNone(sel.provider)
          THEN rt' = [rt EXCEPT !.pc = "returned", !.path = sel.path,
                                !.success = FALSE, !.cost_aud = 0]
          ELSE \E ok \in BOOLEAN :
                 rt' = [rt EXCEPT !.pc = "returned", !.path = sel.path,
                                  !.invoked = <<Val(sel.provider)>>,
                                  !.success = ok,
                                  !.cost_aud = IF ok THEN rt.est[Val(sel.provider)] ELSE 0]
    /\ UNCHANGED <<providers, department, spend0, user_budget, current_user,
                   request_data, req, vd, cf, pd, cc, rp, pg, ub, rl, settings>>

-----------------------------------------------------------------------------
(* generate_image *)

\* the default of settings.MAX_COST_PER_IMAGE_AUD, in cents
MAX_COST_PER_IMAGE_AUD == 50

\* the settings of a deployment that keeps the defaults
DefaultSettings == [MAX_COST_PER_IMAGE_AUD |-> MAX_COST_PER_IMAGE_AUD]

Enforcements == {"hard", "soft", "warn"}

\* Department.budget_remaining_aud
budget_remaining_aud(d) == d.monthly_budget_aud - d.current_spend_aud

\* the estimates of the registered providers for the submitted request
Estimates(rd) ==
    [p \in Registrable |-> estimate_cost(p, rd.quality, rd.num_images)]

RECURSIVE CheapestEstimateFrom(_, _, _, _)
\* the loop of lines 138-141 from index i on, with estimated_cost = acc
CheapestEstimateFrom(registry, est, i, acc) ==
    IF i > Len(registry) THEN acc
    ELSE LET cost == est[registry[i]]
         IN CheapestEstimateFrom(registry, est, i + 1,
                                 IF acc = 0 \/ cost < acc THEN cost ELSE acc)

\* lines 130-141: the cost generate_image checks the limits against
EstimatedCost(registry, rd) ==
    IF ~IsNone(rd.preferred_provider)
    THEN IF Val(rd.preferred_provider) \in Range(registry)
         THEN Estimates(rd)[Val(rd.preferred_provider)]
         ELSE 0
    ELSE CheapestEstimateFrom(registry, Estimates(rd), 1, 0)

\* line 144: the per-image safety limit
ExceedsSafetyLimit(estimated_cost, rd) ==
    estimated_cost > settings.MAX_COST_PER_IMAGE_AUD * rd.num_images

\* a check that would also reject a request that exactly uses up the budget
BudgetRejectsMut(d, estimated_cost) ==
    /\ estimated_cost >= budget_remaining_aud(d)
    /\ d.enforcement = "hard"
\* lines 151-161: the department check raises 402
BudgetRejects(d, estimated_cost) ==
    /\ estimated_cost > budget_remaining_aud(d)
    /\ d.enforcement = "hard"

\* BudgetService.check_budget_exceeded: would_exceed
check_budget_exceeded(b, additional_cost) ==
    IF b.monthly_budget_aud = 0 THEN FALSE
    ELSE b.current_spend_aud + additional_cost > b.monthly_budget_aud

Requests == 1..MaxRequests

NewRequest ==
    [pc |-> "new", http |-> 0, snapshot |-> 0, estimated_cost |-> 0,
     status |-> "none", invoked |-> <<>>, success |-> FALSE, cost_aud |-> 0]

\* lines 102-193: permission, department load, estimate, safety limit, budget
\* check, insert of the ImageGeneration row (status PROCESSING)
Admit(r) ==
    /\ req[r].pc = "new"
    \* calls are numbered in the order in which they arrive
    /\ \A q \in Requests : q < r => req[q].pc # "new"
    /\ LET est == EstimatedCost(providers, request_data)
       IN req' = [req EXCEPT ![r] =
            IF ~current_user.can_generate_images
            THEN [@ EXCEPT !.pc = "raised", !.http = 403]
            ELSE IF ExceedsSafetyLimit(est, request_data)
            THEN [@ EXCEPT !.pc = "raised", !.http = 400, !.estimated_cost = est]
            ELSE IF current_user.has_department /\ BudgetRejects(department, est)
            THEN [@ EXCEPT !.pc = "raised", !.http = 402, !.estimated_cost = est,
                           !.snapshot = department.current_spend_aud]
            ELSE [@ EXCEPT !.pc = "processing", !.estimated_cost = est,
                           !.status = "PROCESSING",
                           !.snapshot = IF current_user.has_department
                                        THEN department.current_spend_aud ELSE 0]]
    /\ UNCHANGED <<providers, department, spend0, user_budget, current_user,
                   request_data, rt, vd, cf, pd, cc, rp, pg, ub, rl, settings>>

\* what a successful generate() of provider p charges: DALL-E 3 charges the images
\* it produced (1..num_images), SDXL and Firefly charge their estimate
ActualCosts(p, rd) ==
    IF p = "azure_openai_dalle3"
    THEN {estimate_cost(p, rd.quality, 1) * k : k \in 1..rd.num_images}
    ELSE {estimate_cost(p, rd.quality, rd.num_images)}

\* line 234: the value the session writes to departments.current_spend_aud
NewSpend(snapshot, cost_aud, d) == snapshot + cost_aud

\* lines 203-219 and 274-290: a failed outcome
GenerationFailed(r, invoked) ==
    /\ req' = [req EXCEPT ![r] = [@ EXCEPT !.pc = "raised", !.http = 500,
                                           !.status = "FAILED", !.invoked = invoked,
                                           !.success = FALSE, !.cost_aud = 0]]
    /\ UNCHANGED department

\* lines 221-236: a successful outcome; the commit writes the department row from
\* the object loaded at line 112 (expire_on_commit=False)
GenerationSucceeded(r, p, cost) ==
    /\ req' = [req EXCEPT ![r] = [@ EXCEPT !.pc = "completed",
                                           !.status = "COMPLETED", !.invoked = <<p>>,
                                           !.success = TRUE, !.cost_aud = cost]]
    /\ department' =
         IF current_user.has_department
         THEN [department EXCEPT
                 !.current_spend_aud = NewSpend(req[r].snapshot, cost, department)]
         ELSE department

\* lines 195-236 and 274-290: router_instance.generate and the handling of its
\* result, up to the commit of the outcome
Generate(r) ==
    /\ req[r].pc = "processing"
    /\ LET sel == RouterSelect(providers, Estimates(request_data),
                               request_data.preferred_provider,
                               request_data.max_cost_aud)
       IN IF IsNone(sel.provider)
          THEN GenerationFailed(r, <<>>)
          ELSE \/ GenerationFailed(r, <<Val(sel.provider)>>)
               \/ \E cost \in ActualCosts(Val(sel.provider), request_data) :
                    GenerationSucceeded(r, Val(sel.provider), cost)
    /\ UNCHANGED <<providers, spend0, user_budget, current_user, request_data, rt, vd,
                   cf, pd, cc, rp, pg, ub, rl, settings>>

\* lines 237-272 and 274-290: after the commit of a completed generation the row is
\* refreshed and the response is built; an exception raised there (the refresh
\* fails, an image URL of the result is not a string) is handled as any other
Respond(r) ==
    /\ req[r].pc = "completed"
    /\ \E raised \in BOOLEAN :
        req' = [req EXCEPT ![r] =
                  IF raised
                  THEN [@ EXCEPT !.pc = "raised", !.http = 500, !.status = "FAILED"]
                  ELSE [@ EXCEPT !.pc = "returned", !.http = 200]]
    /\ UNCHANGED <<providers, department, spend0, user_budget, current_user,
                   request_data, rt, vd, cf, pd, cc, rp, pg, ub, rl, settings>>

-----------------------------------------------------------------------------
(* Python floats (IEEE-754 doubles, round to nearest, ties to even).  A      *)
(* double x is written [h, d] with x = (h + d / 2^FracBits) / Scale: h counts *)
(* quarters of hundredths, d is the distance to the double in units of       *)
(* 1 / (Scale * 2^FracBits).                                                 *)

Scale == 4 * 100
\* the 52 fraction bits of a double and four more for the doubles below 1
FracBits == 52 + 4

RECURSIVE Pow2(_)
Pow2(n) == IF n = 0 THEN 1 ELSE 2 * Pow2(n - 1)

RECURSIVE Pow2Mod(_, _)
\* 2^n modulo m
Pow2Mod(n, m) ==
    IF n < 8 THEN Pow2(n) % m ELSE ((Pow2(8) % m) * Pow2Mod(n - 8, m)) % m

\* x >= 2^e
AtLeastPow2(x, e) ==
    LET hh == 16 * x.h
        bb == Scale * Pow2(e + 4)
    IN hh > bb \/ (hh = bb /\ x.d >= 0)

\* the binary exponent of x: 2^e <= x < 2^(e+1)
Exponent(x) == CHOOSE e \in -4..5 : AtLeastPow2(x, e) /\ ~AtLeastPow2(x, e + 1)

\* the spacing of the doubles with exponent e
Grid(e) == Scale * Pow2(FracBits - 52 + e)

\* (h * 2^FracBits) modulo twice the spacing of the doubles with exponent e
HighMod(h, e) ==
    Pow2(FracBits - 51 + e) * (((h % Scale) * Pow2Mod(51 - e, Scale)) % Scale)

\* the position of x between two doubles of even mantissa
Phase(x) == (HighMod(x.h, Exponent(x)) + x.d) % (2 * Grid(Exponent(x)))

\* the double nearest to the real number x, ties to the even mantissa
Round(x) ==
    LET G == Grid(Exponent(x))
        low == Phase(x) % G
        odd == Phase(x) >= G
    IN IF 2 * low < G \/ (2 * low = G /\ ~odd)
       THEN [h |-> x.h, d |-> x.d - low]
       ELSE [h |-> x.h, d |-> x.d - low + G]

\* the float literal for c hundredths (0.7, 0.95, 1.0)
Double(c) == Round([h |-> c * (Scale \div 100), d |-> 0])

\* x + y
FloatAdd(x, y) == Round([h |-> x.h + y.h, d |-> x.d + y.d])

\* w * x for a weight w of k quarters (0.25, 0.5, 0.75, 1.0 are doubles)
FloatTimesQuarters(k, x) == Round([h |-> (k * x.h) \div 4, d |-> (k * x.d) \div 4])

\* the double t has an even mantissa
EvenMantissa(t) == Phase(t) < Grid(Exponent(t))

\* x / n >= t for doubles x, t and an integer n >= 1: the rounded quotient
\* reaches t exactly when the real quotient is above the midpoint between t and
\* the double below it, or on it with t of even mantissa
QuotientGeq(x, n, t) ==
    IF x.h # n * t.h THEN x.h > n * t.h
    ELSE LET m == n * (2 * t.d - Grid(Exponent(t)))
         IN 2 * x.d > m \/ (2 * x.d = m /\ EvenMantissa(t))

-----------------------------------------------------------------------------
(* Prompts.  A prompt is described by what the checks read from it: its     *)
(* length, whether strip() leaves nothing, null bytes, control characters,  *)
(* the PII matches (types, in detection order) and the content patterns and *)
(* keyword groups that match.                                               *)

\* defaults of validate(prompt, max_length, min_length)
MAX_LENGTH == 2000
MIN_LENGTH == 3
\* settings.PII_DETECTION_THRESHOLD, in hundredths
PII_DETECTION_THRESHOLD == 70

\* PIIDetector._calculate_confidence (hundredths) for the types the prompts carry
PIIConfidence(t) ==
    CASE t = "ssn" -> 95
      [] t = "email" -> 90
      [] t = "phone" -> 85
      [] t = "bank_account" -> 75
      [] t = "ip_address" -> 70
      [] t = "drivers_license" -> 75
      [] t = "password" -> 90
      [] OTHER -> 70

RECURSIVE SumConfidence(_)
\* sum(d.confidence for d in detections) for a non-empty list of types: float
\* additions from left to right
SumConfidence(ds) ==
    IF Len(ds) = 1 THEN Double(PIIConfidence(ds[1]))
    ELSE FloatAdd(SumConfidence(SubSeq(ds, 1, Len(ds) - 1)),
                  Double(PIIConfidence(ds[Len(ds)])))

\* PIIDetector.detect: contains_pii = overall_confidence >= self.threshold, where
\* overall_confidence is sum / len (0.0 without detections)
contains_pii(ds) ==
    IF ds = <<>> THEN 0 >= PII_DETECTION_THRESHOLD
    ELSE QuotientGeq(SumConfidence(ds), Len(ds), Double(PII_DETECTION_THRESHOLD))

\* the content patterns and keyword groups of the model, in the order filter() tests
\* them: id, violation type, severity, confidence (hundredths)
ContentChecks ==
    << [id |-> "script_tag",        type |-> "injection_attempt", severity |-> "critical", confidence |-> 90],
       [id |-> "ignore_previous",   type |-> "prompt_injection",  severity |-> "high",     confidence |-> 90],
       [id |-> "system_you_are",    type |-> "prompt_injection",  severity |-> "medium",   confidence |-> 90],
       [id |-> "click_here",        type |-> "spam",              severity |-> "low",      confidence |-> 90],
       [id |-> "repeated_string",   type |-> "repetitive_content", severity |-> "low",     confidence |-> 90],
       [id |-> "violence_keywords", type |-> "violence",          severity |-> "high",     confidence |-> 70],
       [id |-> "sexual_keyword",    type |-> "sexual_content",    severity |-> "high",     confidence |-> 80],
       [id |-> "illegal_keywords",  type |-> "illegal_activity",  severity |-> "critical", confidence |-> 75] >>

RECURSIVE MatchedFrom(_, _)
MatchedFrom(matches, i) ==
    IF i > Len(ContentChecks) THEN <<>>
    ELSE (IF ContentChecks[i].id \in matches
          THEN <<[type |-> ContentChecks[i].type, severity |-> ContentChecks[i].severity,
                  confidence |-> ContentChecks[i].confidence]>>
          ELSE <<>>) \o MatchedFrom(matches, i + 1)

\* ContentFilter.filter: the violations list
Violations(prompt, max_length) ==
    (IF prompt.length > max_length
     THEN <<[type |-> "excessive_length", severity |-> "medium", confidence |-> 100]>>
     ELSE <<>>) \o MatchedFrom(prompt.matches, 1)

\* severity_weights, in hundredths
SeverityWeight(sev) ==
    CASE sev = "low" -> 25 [] sev = "medium" -> 50 [] sev = "high" -> 75
      [] sev = "critical" -> 100

\* severity_weights[v.severity] * v.confidence
Weighted(v) ==
    FloatTimesQuarters(SeverityWeight(v.severity) \div 25, Double(v.confidence))

RECURSIVE TotalScore(_)
\* total_score for a non-empty list of violations: float additions from left to right
TotalScore(vs) ==
    IF Len(vs) = 1 THEN Weighted(vs[1])
    ELSE FloatAdd(TotalScore(SubSeq(vs, 1, Len(vs) - 1)), Weighted(vs[Len(vs)]))

\* risk_score >= t/100 for risk_score = min(1.0, total_score / max(1, len(violations))),
\* 0.0 without violations, and a threshold t of 1..100 hundredths
RiskAtLeast(vs, t) ==
    IF vs = <<>> THEN FALSE
    ELSE QuotientGeq(TotalScore(vs), Len(vs), Double(t))

\* ContentFilter._determine_action
DetermineAction(vs) ==
    IF \E i \in 1..Len(vs) : vs[i].severity = "critical" THEN "block"
    ELSE IF RiskAtLeast(vs, 75) THEN "block"
    ELSE IF RiskAtLeast(vs, 40) THEN "warn"
    ELSE "allow"

\* ContentFilter.filter: action; is_safe = (action == "allow")
ContentAction(prompt, max_length) == DetermineAction(Violations(prompt, max_length))

-----------------------------------------------------------------------------
(* PromptSecurityValidator.validate *)

Actions == {"allow", "warn", "block"}

\* ValidationAction is a str enum; max(..., key=lambda x: x.value) compares the
\* values "allow", "block", "warn" as strings
ValueOrder(a) == CASE a = "allow" -> 1 [] a = "block" -> 2 [] a = "warn" -> 3

\* max(action, ValidationAction.WARN, key=lambda x: x.value)
MaxByValue(a, b) == IF ValueOrder(b) > ValueOrder(a) THEN b ELSE a

\* _validate_basic: the issue types, in order
BasicIssues(prompt, min_length, max_length) ==
    (IF prompt.length = 0 \/ prompt.blank THEN <<"empty_prompt">> ELSE <<>>)
    \o (IF prompt.length < min_length THEN <<"prompt_too_short">> ELSE <<>>)
    \o (IF prompt.length > max_length THEN <<"prompt_too_long">> ELSE <<>>)
    \o (IF prompt.nul THEN <<"null_bytes">> ELSE <<>>)
    \o (IF prompt.ctrl THEN <<"control_characters">> ELSE <<>>)

\* lines 124-127
AfterBasic(prompt) ==
    IF BasicIssues(prompt, MIN_LENGTH, MAX_LENGTH) # <<>> THEN "block" ELSE "allow"

\* lines 131-155: the action after the PII step
AfterPII(action, prompt, cfg) ==
    IF ~cfg.enable_pii THEN action
    ELSE IF cfg.pii_raises
         THEN IF cfg.strict_mode THEN "block" ELSE action
         ELSE IF contains_pii(prompt.pii)
              THEN CASE cfg.pii_action = "block" -> "block"
                     [] cfg.pii_action = "warn" -> MaxByValue(action, "warn")
                     [] OTHER -> action
              ELSE action

\* lines 158-180: the action after the content-filter step
AfterContent(action, prompt, cfg) ==
    IF cfg.content_raises
    THEN IF cfg.strict_mode THEN "block" ELSE action
    ELSE LET ca == ContentAction(prompt, MAX_LENGTH)
         IN CASE ca = "block" -> "block"
              [] ca = "warn" -> MaxByValue(action, "warn")
              [] OTHER -> action

\* the action validate() ends with
FinalAction(prompt, cfg) ==
    AfterContent(AfterPII(AfterBasic(prompt), prompt, cfg), prompt, cfg)

\* a validate() that would raise ContentViolationError for every block that is
\* not a PII block
OutcomeMut(action, prompt, cfg) ==
    IF action = "block"
    THEN IF cfg.enable_pii /\ ~cfg.pii_raises /\ contains_pii(prompt.pii)
            /\ cfg.pii_action = "block"
         THEN "PIIDetectedError"
         ELSE "ContentViolationError"
    ELSE "returned"
\* lines 221-239: what validate() does with the final action
Outcome(action, prompt, cfg) ==
    IF action = "block"
    THEN IF cfg.enable_pii /\ ~cfg.pii_raises /\ contains_pii(prompt.pii)
            /\ cfg.pii_action = "block"
         THEN "PIIDetectedError"
         ELSE IF ~cfg.content_raises /\ ContentAction(prompt, MAX_LENGTH) # "allow"
              THEN "ContentViolationError"
              ELSE "returned"
    ELSE "returned"

PIIActions == {"block", "warn", "anonymize"}

\* settings and call arguments of one validate() call, and whether a detector throws
ValidatorConfigs ==
    [pii_action : PIIActions, enable_pii : BOOLEAN, strict_mode : BOOLEAN,
     pii_raises : BOOLEAN, content_raises : BOOLEAN]

\* the production settings: PII_ACTION = "block", ENABLE_PII_DETECTION, strict_mode
\* = False, detectors that work
DefaultConfig ==
    [pii_action |-> "block", enable_pii |-> TRUE, strict_mode |-> FALSE,
     pii_raises |-> FALSE, content_raises |-> FALSE]

Lengths == {0, MIN_LENGTH - 1, 40, MAX_LENGTH + 1}
PIICases == {<<>>, <<"ssn">>, <<"email", "ip_address">>}
PromptPatterns == {"script_tag", "ignore_previous", "click_here"}

\* the prompts of the model: texts of the four length classes; a match needs text
Prompts ==
    {p \in [length : Lengths, blank : BOOLEAN, nul : BOOLEAN, ctrl : BOOLEAN,
            pii : PIICases, matches : SUBSET PromptPatterns] :
        /\ p.length = 0 => p.blank /\ ~p.ctrl
        /\ p.nul => p.ctrl /\ ~p.blank
        /\ (p.blank \/ p.length < MIN_LENGTH) => p.pii = <<>> /\ p.matches = {}}

BenignPrompt ==
    [length |-> 40, blank |-> FALSE, nul |-> FALSE, ctrl |-> FALSE, pii |-> <<>>,
     matches |-> {}]

ValidatorIdle ==
    [pc |-> "idle", prompt |-> BenignPrompt, cfg |-> DefaultConfig,
     action |-> "allow", issues |-> <<>>, outcome |-> "none"]

ValidatorInit ==
    \E prompt \in Prompts, cfg \in ValidatorConfigs :
        vd = [ValidatorIdle EXCEPT !.pc = "basic", !.prompt = prompt, !.cfg = cfg]

NotValidator ==
    UNCHANGED <<providers, department, spend0, user_budget, current_user,
                request_data, req, rt, cf, pd, cc, rp, pg, ub, rl, settings>>

\* lines 120-127
ValidateBasic ==
    /\ vd.pc = "basic"
    /\ vd' = [vd EXCEPT !.pc = "pii",
                        !.issues = BasicIssues(vd.prompt, MIN_LENGTH, MAX_LENGTH),
                        !.action = AfterBasic(vd.prompt)]
    /\ NotValidator

\* lines 129-155
ValidatePII ==
    /\ vd.pc = "pii"
    /\ vd' = [vd EXCEPT
                !.pc = "content",
                !.issues = @ \o
                    (IF ~vd.cfg.enable_pii THEN <<>>
                     ELSE IF vd.cfg.pii_raises
                          THEN IF vd.cfg.strict_mode THEN <<"pii_detection_error">> ELSE <<>>
                          ELSE IF contains_pii(vd.prompt.pii)
                               THEN [i \in 1..Cardinality(Range(vd.prompt.pii)) |->
                                       "pii_detected"]
                               ELSE <<>>),
                !.action = AfterPII(vd.action, vd.prompt, vd.cfg)]
    /\ NotValidator

\* lines 157-180
ValidateContent ==
    /\ vd.pc = "content"
    /\ vd' = [vd EXCEPT
                !.pc = "final",
                !.issues = @ \o
                    (IF vd.cfg.content_raises
                     THEN IF vd.cfg.strict_mode THEN <<"content_filter_error">> ELSE <<>>
                     ELSE IF ContentAction(vd.prompt, MAX_LENGTH) # "allow"
                          THEN [i \in 1..Len(Violations(vd.prompt, MAX_LENGTH)) |->
                                  "content_violation"]
                          ELSE <<>>),
                !.action = AfterContent(vd.action, vd.prompt, vd.cfg)]
    /\ NotValidator

\* lines 182-239
ValidateFinish ==
    /\ vd.pc = "final"
    /\ vd' = [vd EXCEPT !.pc = "done",
                        !.outcome = Outcome(vd.action, vd.prompt, vd.cfg)]
    /\ NotValidator

-----------------------------------------------------------------------------
(* ContentFilter.filter, called on its own *)

\* the texts of the model: a text within or beyond max_length, and the patterns and
\* keyword groups it matches
FilterTexts ==
    [length : {40, MAX_LENGTH + 1},
     matches : SUBSET {ContentChecks[i].id : i \in 1..Len(ContentChecks)}]

FilterIdle ==
    [pc |-> "idle", text |-> [length |-> 40, matches |-> {}], violations |-> <<>>,
     action |-> "allow", is_safe |-> TRUE]

FilterInit == \E text \in FilterTexts : cf = [FilterIdle EXCEPT !.pc = "call", !.text = text]

\* filter(text, max_length=2000): violations, action, is_safe
Filter ==
    /\ cf.pc = "call"
    /\ LET vs == Violations(cf.text, MAX_LENGTH)
       IN cf' = [cf EXCEPT !.pc = "done", !.violations = vs,
                           !.action = DetermineAction(vs),
                           !.is_safe = (DetermineAction(vs) = "allow")]
    /\ UNCHANGED <<providers, department, spend0, user_budget, current_user,
                   request_data, req, rt, vd, pd, cc, rp, pg, ub, rl, settings>>

-----------------------------------------------------------------------------
(* PIIDetector.detect, called on its own.  A text is the sequence of its      *)
(* characters, each written as [type |-> "char", k |-> its index + 1]; the    *)
(* characters of a placeholder "[TYPE_REDACTED]" are [type |-> TYPE, k |-> j]. *)

\* longest text of the model
MaxTextLen == 4
\* most matches in one text
MaxDetections == 3
\* characters of a placeholder
PlaceholderLen == 2

\* the PII types of the model, in the order of self.patterns
DetectTypes == <<"ip_address", "drivers_license", "password">>

TypeIndex(t) == CHOOSE i \in 1..Len(DetectTypes) : DetectTypes[i] = t

Text(n) == [i \in 1..n |-> [type |-> "char", k |-> i]]

\* the detections list: types in pattern order, the matches of one pattern (finditer)
\* ascending and disjoint
DetectionLists(n) ==
    UNION {{ds \in [1..m -> [type : Range(DetectTypes), start : 0..n, end : 0..n]] :
              /\ \A i \in 1..m : ds[i].start < ds[i].end
              /\ \A i \in 1..m - 1 :
                    \/ TypeIndex(ds[i].type) < TypeIndex(ds[i + 1].type)
                    \/ /\ ds[i].type = ds[i + 1].type
                       /\ ds[i].end <= ds[i + 1].start} : m \in 0..MaxDetections}

\* anonymized[:i]
Prefix(s, i) == SubSeq(s, 1, IF i < Len(s) THEN i ELSE Len(s))
\* anonymized[i:]
Suffix(s, i) == SubSeq(s, (IF i < Len(s) THEN i ELSE Len(s)) + 1, Len(s))

\* f"[{detection.type.value.upper()}_REDACTED]"
Placeholder(t) == [j \in 1..PlaceholderLen |-> [type |-> t, k |-> j]]

RECURSIVE InsertByStart(_, _)
\* d placed behind every detection whose start is not smaller
InsertByStart(d, sorted) ==
    IF sorted = <<>> THEN <<d>>
    ELSE IF Head(sorted).start < d.start THEN <<d>> \o sorted
    ELSE <<Head(sorted)>> \o InsertByStart(d, Tail(sorted))

RECURSIVE SortedByStartDesc(_)
\* sorted(detections, key=lambda d: d.start, reverse=True): stable
SortedByStartDesc(ds) ==
    IF ds = <<>> THEN <<>>
    ELSE InsertByStart(ds[Len(ds)], SortedByStartDesc(SubSeq(ds, 1, Len(ds) - 1)))

RECURSIVE ReplaceAll(_, _)
\* the replacement loop of _anonymize_text
ReplaceAll(anonymized, sorted) ==
    IF sorted = <<>> THEN anonymized
    ELSE ReplaceAll(Prefix(anonymized, Head(sorted).start)
                        \o Placeholder(Head(sorted).type)
                        \o Suffix(anonymized, Head(sorted).end),
                    Tail(sorted))

\* PIIDetector._anonymize_text
anonymize_text(text, detections) == ReplaceAll(text, SortedByStartDesc(detections))

DetectIdle ==
    [pc |-> "idle", text |-> <<>>, detections |-> <<>>, contains_pii |-> FALSE,
     anonymized_text |-> None]

DetectInit ==
    \E n \in 0..MaxTextLen : \E ds \in DetectionLists(n) :
        pd = [DetectIdle EXCEPT !.pc = "call", !.text = Text(n), !.detections = ds]

\* detect(text) with the detector enabled: contains_pii and anonymized_text
Detect ==
    /\ pd.pc = "call"
    /\ LET found == contains_pii([i \in 1..Len(pd.detections) |-> pd.detections[i].type])
       IN pd' = [pd EXCEPT !.pc = "done", !.contains_pii = found,
                           !.anonymized_text =
                               IF found THEN Some(anonymize_text(pd.text, pd.detections))
                               ELSE None]
    /\ UNCHANGED <<providers, department, spend0, user_budget, current_user,
                   request_data, req, rt, vd, cf, cc, rp, pg, ub, rl, settings>>

-----------------------------------------------------------------------------
(* PIIDetector._calculate_confidence for a credit card match *)

\* most digits of a matched number
MaxDigits == 4

\* the matched values: the credit card patterns match digits only
DigitStrings == UNION {[1..n -> 0..9] : n \in 0..MaxDigits}

\* one step of the loop: i is the index in reversed(digits)
LuhnDigitMut(i, digit) ==
    IF i % 2 = 0
    THEN IF 2 * digit > 9 THEN 2 * digit - 9 ELSE 2 * digit
    ELSE digit
\* one step of the loop: i is the index in reversed(digits)
LuhnDigit(i, digit) ==
    IF i % 2 = 1
    THEN IF 2 * digit > 9 THEN 2 * digit - 9 ELSE 2 * digit
    ELSE digit

RECURSIVE Reversed(_)
Reversed(s) == IF s = <<>> THEN <<>> ELSE Reversed(Tail(s)) \o <<Head(s)>>

RECURSIVE Checksum(_, _)
\* checksum after the loop over enumerate(reversed(digits)), from index i on
Checksum(rev, i) ==
    IF i >= Len(rev) THEN 0 ELSE LuhnDigit(i, rev[i + 1]) + Checksum(rev, i + 1)

\* PIIDetector._validate_luhn
validate_luhn(number) == Checksum(Reversed(number), 0) % 10 = 0

\* _calculate_confidence(PIIType.CREDIT_CARD, value), in hundredths
CreditCardConfidence(value) == IF validate_luhn(value) THEN 99 ELSE 70

CardIdle == [pc |-> "idle", value |-> <<>>, confidence |-> 0]

CardInit == \E value \in DigitStrings : cc = [CardIdle EXCEPT !.pc = "call", !.value = value]

CalculateConfidence ==
    /\ cc.pc = "call"
    /\ cc' = [cc EXCEPT !.pc = "done", !.confidence = CreditCardConfidence(cc.value)]
    /\ UNCHANGED <<providers, department, spend0, user_budget, current_user,
                   request_data, req, rt, vd, cf, pd, rp, pg, ub, rl, settings>>

-----------------------------------------------------------------------------
(* The retry policies of utils/retry.py around a function that calls an      *)
(* external API.  A failure is the exception the function raises: an error   *)
(* response with its status code, a connection error or a timeout.           *)

\* most attempts of a policy (max_attempts, default 3)
MaxAttempts == 3

Policies ==
    {"retry_on_transient_error", "retry_on_http_error", "retry_openai_call",
     "retry_azure_call"}

StatusCodes == {400, 401, 404, 429, 500, 503}

Failures ==
    {[kind |-> "status", status_code |-> c] : c \in StatusCodes}
    \cup {[kind |-> "connection", status_code |-> 0], [kind |-> "timeout", status_code |-> 0]}

\* what tenacity hands to the callable given as retry=: the state of the call,
\* which holds the exception in its outcome
RetryCallState(failure) == [kind |-> "retry_state", outcome |-> failure]

\* retry_on_http_error.should_retry(exception)
should_retry_http(exception) ==
    IF exception.kind = "status"
    THEN 500 <= exception.status_code /\ exception.status_code < 600
    ELSE IF exception.kind \in {"connection", "timeout"} THEN TRUE
    ELSE FALSE

\* retry_azure_call.should_retry(exception)
should_retry_azure(exception) ==
    IF exception.kind = "status"
    THEN IF exception.status_code = 429 THEN TRUE
         ELSE IF 500 <= exception.status_code /\ exception.status_code < 600 THEN TRUE
         ELSE FALSE
    ELSE IF exception.kind \in {"connection", "timeout"} THEN TRUE
    ELSE FALSE

\* the classes of the openai exception a failure is raised as, with their bases
OpenAIClasses(failure) ==
    CASE failure.kind = "connection" -> {"APIConnectionError", "APIError"}
      [] failure.kind = "timeout" -> {"APITimeoutError", "APIConnectionError", "APIError"}
      [] failure.kind = "status" /\ failure.status_code = 429 ->
            {"RateLimitError", "APIStatusError", "APIError"}
      [] OTHER -> {"APIStatusError", "APIError"}

\* retry_if_exception_type((RateLimitError, APIError, APIConnectionError)), applied
\* to the state of the call
retry_if_openai_error(retry_state) ==
    OpenAIClasses(retry_state.outcome)
        \cap {"RateLimitError", "APIError", "APIConnectionError"} # {}

\* retry_if_exception_type(exceptions), applied to the state of the call
retry_if_exception_type(exceptions, retry_state) ==
    {retry_state.outcome.kind, "Exception"} \cap exceptions # {}

\* the retry= argument of the policy, called by tenacity after a failed attempt
RetryAgain(policy, failure) ==
    CASE policy = "retry_on_transient_error" ->
            retry_if_exception_type(rp.exceptions, RetryCallState(failure))
      [] policy = "retry_on_http_error" -> should_retry_http(RetryCallState(failure))
      [] policy = "retry_openai_call" -> retry_if_openai_error(RetryCallState(failure))
      [] policy = "retry_azure_call" -> should_retry_azure(RetryCallState(failure))

\* stop_after_attempt(max_attempts)
StopAfterAttempt(calls, max_attempts) == calls >= max_attempts

\* logger.log(level, event) of the structlog logger, called by before_sleep_log and
\* after_log: the level is looked up in a table keyed by the integer levels
LogRaises(level) == level \notin {"10", "20", "30", "40", "50"}

RetryIdle ==
    [pc |-> "idle", policy |-> "retry_on_http_error", max_attempts |-> 1,
     exceptions |-> {}, calls |-> 0, failures |-> <<>>, raised |-> "none"]

\* exceptions= of retry_on_transient_error is (Exception,) by default, or classes of
\* failures
RetryInit ==
    \E policy \in Policies, max_attempts \in 1..MaxAttempts,
       exceptions \in {{"Exception"}, {"status"}, {"connection", "timeout"}} :
        /\ policy # "retry_on_transient_error" => exceptions = {"Exception"}
        /\ rp = [RetryIdle EXCEPT !.pc = "call", !.policy = policy,
                                  !.max_attempts = max_attempts,
                                  !.exceptions = exceptions]

\* one attempt: the function returns, or raises and the policy decides: retry=, then
\* after= (retry_on_transient_error only: after_log(logger, "INFO")), then stop= with
\* reraise=True, then before_sleep= (before_sleep_log(logger, "WARNING")), then the wait
AttemptReturns ==
    /\ rp.pc = "call"
    /\ rp' = [rp EXCEPT !.pc = "returned", !.calls = @ + 1]
    /\ UNCHANGED <<providers, department, spend0, user_budget, current_user,
                   request_data, req, rt, vd, cf, pd, cc, pg, ub, rl, settings>>

AttemptFails ==
    /\ rp.pc = "call"
    /\ \E failure \in Failures :
        LET next ==
                IF ~RetryAgain(rp.policy, failure) THEN "failure"
                ELSE IF rp.policy = "retry_on_transient_error" /\ LogRaises("INFO")
                THEN "log_level"
                ELSE IF StopAfterAttempt(rp.calls + 1, rp.max_attempts) THEN "failure"
                ELSE IF LogRaises("WARNING") THEN "log_level"
                ELSE "none"
        IN rp' = [rp EXCEPT
                    !.calls = @ + 1,
                    !.failures = Append(@, failure),
                    !.raised = next,
                    !.pc = IF next = "none" THEN "call" ELSE "raised"]
    /\ UNCHANGED <<providers, department, spend0, user_budget, current_user,
                   request_data, req, rt, vd, cf, pd, cc, pg, ub, rl, settings>>

-----------------------------------------------------------------------------
(* generate() of the providers.  Every call of the external API is recorded  *)
(* with the operation, its index (the image for DALL-E, the poll for SDXL)   *)
(* and its outcome: a failure of Failures or a response.                     *)

\* most polls of a prediction in the model
MaxPolls == 3

Response(kind) == [kind |-> kind, status_code |-> 200]

\* self.max_retries: DALLE3Provider passes 2, the others keep the default 3
max_retries(p) == IF p = "azure_openai_dalle3" THEN 2 ELSE 3

\* a result that would bill a failed generation
ErrorResultMut(error_message) ==
    [success |-> FALSE, images |-> 0, cost_aud |-> 1, error_message |-> error_message]
\* _error_result, and the failure result of DALLE3Provider.generate
ErrorResult(error_message) ==
    [success |-> FALSE, images |-> 0, cost_aud |-> 0, error_message |-> error_message]

\* `except httpx.HTTPError` / `except Exception` of SDXLProvider and FireflyProvider
ErrorOf(outcome) ==
    IF outcome.kind = "malformed" THEN ErrorResult("unexpected_error")
    ELSE ErrorResult("api_error")

\* a poll loop that makes one poll more than range(max_polls)
PollBudgetUsedUpMut(polls, timeout_seconds) == polls > timeout_seconds \div 5
\* `for poll_count in range(max_polls)` with max_polls = self.timeout_seconds // 5
PollBudgetUsedUp(polls, timeout_seconds) == polls >= timeout_seconds \div 5

ProviderIdle ==
    [pc |-> "idle", provider |-> "azure_openai_dalle3", num_images |-> 1,
     supported_size |-> TRUE, timeout_seconds |-> 0, token_cached |-> FALSE,
     calls |-> <<>>, result |-> ErrorResult("none")]

ProviderReturns(calls, result) ==
    /\ pg' = [pg EXCEPT !.pc = "done", !.calls = calls, !.result = result]
    /\ UNCHANGED <<providers, department, spend0, user_budget, current_user,
                   request_data, req, rt, vd, cf, pd, cc, rp, ub, rl, settings>>

\* DALLE3Provider.generate: one images.generate call per image, a failed call is
\* logged and skipped
Dalle3Generate ==
    /\ pg.pc = "call" /\ pg.provider = "azure_openai_dalle3"
    /\ IF ~pg.supported_size
       THEN ProviderReturns(<<>>, ErrorResult("size_not_supported"))
       ELSE \E outs \in [1..pg.num_images -> {Response("url"), Response("no_data")} \cup Failures] :
              LET urls == Cardinality({i \in 1..pg.num_images : outs[i].kind = "url"})
              IN ProviderReturns(
                    [i \in 1..pg.num_images |->
                        [op |-> "images.generate", index |-> i, outcome |-> outs[i]]],
                    IF urls > 0
                    THEN [success |-> TRUE, images |-> urls,
                          cost_aud |-> urls * estimate_cost(pg.provider, "standard", 1),
                          error_message |-> "none"]
                    ELSE ErrorResult("no_images"))

\* FireflyProvider.generate: the token request unless a token is cached, then the
\* generation request
FireflyGenerate ==
    /\ pg.pc = "call" /\ pg.provider = "adobe_firefly"
    /\ \E token \in {Response("token"), Response("malformed")} \cup Failures,
          out \in {Response("outputs"), Response("no_outputs"), Response("malformed")}
                   \cup Failures,
          urls \in 1..pg.num_images :
        LET token_call == IF pg.token_cached THEN <<>>
                          ELSE <<[op |-> "token", index |-> 0, outcome |-> token]>>
            calls == token_call \o <<[op |-> "generate", index |-> 0, outcome |-> out]>>
        IN IF ~pg.token_cached /\ token.kind # "token"
           THEN ProviderReturns(token_call, ErrorOf(token))
           ELSE IF out.kind = "outputs"
                THEN ProviderReturns(calls,
                        [success |-> TRUE, images |-> urls,
                         cost_aud |-> estimate_cost(pg.provider, "standard", pg.num_images),
                         error_message |-> "none"])
                ELSE IF out.kind = "no_outputs"
                     THEN ProviderReturns(calls, ErrorResult("no_images"))
                     ELSE ProviderReturns(calls, ErrorOf(out))

Polls(calls) == Cardinality({i \in 1..Len(calls) : calls[i].op = "poll"})

\* SDXLProvider.generate up to the poll loop: the prediction is created
SdxlCreate ==
    /\ pg.pc = "call" /\ pg.provider = "replicate_sdxl"
    /\ \E out \in {Response("created"), Response("malformed")} \cup Failures :
        LET calls == <<[op |-> "create", index |-> 0, outcome |-> out]>>
        IN IF out.kind # "created" THEN ProviderReturns(calls, ErrorOf(out))
           ELSE IF PollBudgetUsedUp(0, pg.timeout_seconds)
                THEN ProviderReturns(calls, ErrorResult("timed_out"))
                ELSE /\ pg' = [pg EXCEPT !.pc = "poll", !.calls = calls]
                     /\ UNCHANGED <<providers, department, spend0, user_budget,
                                    current_user, request_data, req, rt, vd, cf, pd, cc,
                                    rp, ub, rl, settings>>

\* SDXLProvider.generate: one round of the poll loop, and what follows the loop
SdxlPoll ==
    /\ pg.pc = "poll"
    /\ \E out \in {Response("succeeded"), Response("succeeded_no_output"),
                   Response("failed"), Response("processing"), Response("canceled")}
                  \cup Failures,
          urls \in 1..pg.num_images :
        LET calls == Append(pg.calls,
                            [op |-> "poll", index |-> Polls(pg.calls) + 1, outcome |-> out])
        IN CASE out.kind = "succeeded" ->
                  ProviderReturns(calls,
                      [success |-> TRUE, images |-> urls,
                       cost_aud |-> estimate_cost(pg.provider, "standard", pg.num_images),
                       error_message |-> "none"])
             [] out.kind = "succeeded_no_output" ->
                  ProviderReturns(calls, ErrorResult("timed_out"))
             [] out.kind = "failed" -> ProviderReturns(calls, ErrorResult("failed"))
             [] out.kind \in {"processing", "canceled"} ->
                  IF PollBudgetUsedUp(Polls(calls), pg.timeout_seconds)
                  THEN ProviderReturns(calls, ErrorResult("timed_out"))
                  ELSE /\ pg' = [pg EXCEPT !.calls = calls]
                       /\ UNCHANGED <<providers, department, spend0, user_budget,
                                      current_user, request_data, req, rt, vd, cf, pd,
                                      cc, rp, ub, rl, settings>>
             [] OTHER -> ProviderReturns(calls, ErrorOf(out))

-----------------------------------------------------------------------------
(* BudgetService: the user_budgets rows of one user and the calls that run   *)
(* against them, each in its own database session.  A call that found no row *)
(* has yet to insert one; other calls run between its select and its commit. *)

\* most rows of the user in the table
MaxRows == 2
\* the spend up to which costs are added to a row (cents)
MaxSpend == 5

\* budget_period_month of the rows; the current month is CurrentMonth
Months == {1, 2}
CurrentMonth == 1

\* the concurrent callers of the service
Sessions == {"s1", "s2"}

BudgetIdle ==
    [rows |-> <<>>,
     calls |-> [s \in Sessions |-> [pc |-> "idle", op |-> "none", month |-> CurrentMonth,
                                    amount |-> 0, error |-> "none"]]]

\* the rows of a month a select returns; get_or_create_current_budget asks for the
\* active ones, set_user_budget for all
Selected(rows, month, active_only) ==
    {i \in 1..Len(rows) : rows[i].month = month /\ (active_only => rows[i].is_active)}

\* get_or_create_current_budget, called directly, by add_cost_to_budget (which then
\* adds cost amount to the row) and by check_budget_exceeded; and set_user_budget,
\* which updates the row of the month or inserts one.  First the select
\* (scalar_one_or_none raises MultipleResultsFound), later the insert and commit.
GetOrCreate(s) ==
    LET call == ub.calls[s]
        Ends(c, error) ==
            [ub.calls EXCEPT ![s] = [BudgetIdle.calls[s] EXCEPT !.error = error]]
        Charged(row, c) ==
            IF c.op = "add_cost_to_budget"
            THEN [row EXCEPT !.current_spend_aud = @ + c.amount]
            ELSE IF c.op = "set_user_budget"
            THEN [row EXCEPT !.monthly_budget_aud = c.amount, !.is_active = TRUE]
            ELSE row
    IN /\ \/ /\ call.pc = "idle"
             /\ \E op \in {"get_or_create_current_budget", "add_cost_to_budget",
                           "check_budget_exceeded", "set_user_budget"},
                   month \in Months, amount \in {0, 5} :
                  LET c == [call EXCEPT !.op = op, !.amount = amount,
                                        !.month = IF op = "set_user_budget" THEN month
                                                  ELSE CurrentMonth]
                      found == Selected(ub.rows, c.month, op # "set_user_budget")
                  IN /\ op # "set_user_budget" => month = CurrentMonth
                     /\ op \in {"get_or_create_current_budget", "check_budget_exceeded"}
                            => amount = 0
                     /\ IF Cardinality(found) > 1
                        THEN ub' = [ub EXCEPT !.calls = Ends(c, "MultipleResultsFound")]
                        ELSE IF found = {}
                        THEN ub' = [ub EXCEPT !.calls[s] = [c EXCEPT !.pc = "insert",
                                                                      !.error = "none"]]
                        ELSE LET i == CHOOSE i \in found : TRUE
                             IN /\ Charged(ub.rows[i], c).current_spend_aud <= MaxSpend
                                /\ ub' = [rows |-> [ub.rows EXCEPT ![i] = Charged(@, c)],
                                          calls |-> Ends(c, "none")]
          \/ /\ call.pc = "insert"
             /\ Len(ub.rows) < MaxRows
             /\ ub' = [rows |-> Append(ub.rows,
                                  Charged([month |-> call.month, is_active |-> TRUE,
                                           monthly_budget_aud |-> 0,
                                           current_spend_aud |-> 0], call)),
                       calls |-> Ends(call, "none")]
       /\ UNCHANGED <<providers, department, spend0, user_budget, current_user,
                      request_data, req, rt, vd, cf, pd, cc, rp, pg, rl, settings>>

\* update_user_budget(budget_id, budget_data): monthly_budget_aud and is_active of
\* the row with that id, each when given
update_user_budget(s) ==
    /\ ub.calls[s].pc = "idle"
    /\ \E i \in 1..Len(ub.rows), amount \in {<<>>, <<5>>}, is_active \in {<<>>, <<TRUE>>, <<FALSE>>} :
        ub' = [ub EXCEPT
                 !.rows[i] = [@ EXCEPT
                                !.monthly_budget_aud = IF amount = <<>> THEN @ ELSE amount[1],
                                !.is_active = IF is_active = <<>> THEN @ ELSE is_active[1]],
                 !.calls[s] = [@ EXCEPT !.error = "none"]]
    /\ UNCHANGED <<providers, department, spend0, user_budget, current_user,
                   request_data, req, rt, vd, cf, pd, cc, rp, pg, rl, settings>>

-----------------------------------------------------------------------------
(* RateLimitMiddleware.dispatch for the requests of one identifier.  The     *)
(* Redis key holds the count of the current window (None when it expired).   *)

\* requests of the identifier in the model
MaxCalls == 3

RateLimitIdle ==
    [key |-> None, limit |-> 1,
     calls |-> [c \in 1..MaxCalls |->
                  [pc |-> "idle", current |-> None, is_allowed |-> FALSE,
                   handled |-> 0, status_code |-> 0]]]

\* _check_rate_limit: `await redis.get(key)`, later the setex, the incr or neither;
\* any exception of the Redis client takes dispatch to its except clause
CheckRateLimit(c) ==
    /\ \/ /\ rl.calls[c].pc = "new"
          /\ \/ rl' = [rl EXCEPT !.calls[c] = [@ EXCEPT !.pc = "read", !.current = rl.key]]
             \/ rl' = [rl EXCEPT !.calls[c] = [@ EXCEPT !.pc = "except"]]
       \/ /\ rl.calls[c].pc = "read"
          /\ LET current == rl.calls[c].current
             IN IF IsNone(current)
                THEN rl' = [rl EXCEPT !.key = Some(1),
                                      !.calls[c] = [@ EXCEPT !.pc = "checked",
                                                             !.is_allowed = TRUE]]
                ELSE IF Val(current) >= rl.limit
                THEN rl' = [rl EXCEPT !.calls[c] = [@ EXCEPT !.pc = "checked",
                                                             !.is_allowed = FALSE]]
                \* INCR of a key that expired meanwhile creates it with the value 1
                ELSE rl' = [rl EXCEPT !.key = IF IsNone(rl.key) THEN Some(1)
                                               ELSE Some(Val(rl.key) + 1),
                                      !.calls[c] = [@ EXCEPT !.pc = "checked",
                                                             !.is_allowed = TRUE]]
    /\ UNCHANGED <<providers, department, spend0, user_budget, current_user,
                   request_data, req, rt, vd, cf, pd, cc, rp, pg, ub, settings>>

\* the rest of dispatch: `response = await call_next(request)`, then the 429 when
\* the check refused, else the handler's response; the except clause calls the
\* handler (again when it was the handler that raised)
CallNext(c) ==
    /\ \/ /\ rl.calls[c].pc = "checked"
          /\ \/ rl' = [rl EXCEPT !.calls[c] =
                         [@ EXCEPT !.pc = "done", !.handled = @ + 1,
                                   !.status_code = IF rl.calls[c].is_allowed THEN 200
                                                   ELSE 429]]
             \/ rl' = [rl EXCEPT !.calls[c] = [@ EXCEPT !.pc = "except",
                                                        !.handled = @ + 1]]
       \/ /\ rl.calls[c].pc = "except"
          /\ rl' = [rl EXCEPT !.calls[c] = [@ EXCEPT !.pc = "done", !.handled = @ + 1,
                                                     !.status_code = 200]]
    /\ UNCHANGED <<providers, department, spend0, user_budget, current_user,
                   request_data, req, rt, vd, cf, pd, cc, rp, pg, ub, settings>>

\* the key set by setex(key, 3600, 1) expires: the window is over.  The model's
\* requests all arrive within one window: the key expires once they were answered.
WindowExpires ==
    /\ ~IsNone(rl.key)
    /\ \A c \in 1..MaxCalls : rl.calls[c].pc = "done"
    /\ rl' = [rl EXCEPT !.key = None]
    /\ UNCHANGED <<providers, department, spend0, user_budget, current_user,
                   request_data, req, rt, vd, cf, pd, cc, rp, pg, ub, settings>>


-----------------------------------------------------------------------------
(* no call of the security services or of a retry policy in progress *)
SecurityIdle == cf = FilterIdle /\ pd = DetectIdle /\ cc = CardIdle /\ rp = RetryIdle

\* no call of a provider, of the BudgetService or of the middleware in progress
ServicesIdle == pg = ProviderIdle /\ ub = BudgetIdle /\ rl = RateLimitIdle

-----------------------------------------------------------------------------
(* Specifications *)

\* Department.monthly_budget_aud values (cents); a period starts with no spend
DeptBudgets == {0, 16}
\* UserBudget.monthly_budget_aud values (cents): 0 is the lazily created default
UserBudgets == {0, 5}
\* max_cost_aud values of a request (ge=0)
Ceilings == {None, Some(0), Some(5)}
\* preferred_provider values of a request: none, one that is never registered,
\* two that may be
Preferences == {None, Some("openai_dalle3"), Some("azure_openai_dalle3"),
                Some("replicate_sdxl")}
\* prompts that pass the request schema: a harmless one, one carrying an SSN
SSNPrompt == [BenignPrompt EXCEPT !.pii = <<"ssn">>]
PipelinePrompts == {BenignPrompt, SSNPrompt}
\* the requesters: without MFA, with a department, without one
Users ==
    {u \in [can_generate_images : BOOLEAN, has_department : BOOLEAN] :
        ~u.can_generate_images => u.has_department}

\* settings.MAX_COST_PER_IMAGE_AUD is the default or 5 cents, below the price of an
\* image of two of the providers
PipelineInit ==
    /\ settings \in [MAX_COST_PER_IMAGE_AUD : {MAX_COST_PER_IMAGE_AUD, 5}]
    /\ providers \in SubSeqs(RegistrationOrder)
    /\ department \in [monthly_budget_aud : DeptBudgets, current_spend_aud : {0},
                       enforcement : Enforcements]
    /\ spend0 = department.current_spend_aud
    /\ user_budget \in [monthly_budget_aud : UserBudgets, current_spend_aud : {0}]
    /\ current_user \in Users
    /\ request_data \in [prompt : PipelinePrompts, quality : {"standard"},
                         num_images : 1..MaxImages,
                         preferred_provider : Preferences, max_cost_aud : Ceilings]
    /\ req = [r \in Requests |-> NewRequest]

PipelineIdle ==
    /\ settings = DefaultSettings
    /\ providers = <<>>
    /\ department = [monthly_budget_aud |-> 0, current_spend_aud |-> 0,
                     enforcement |-> "hard"]
    /\ spend0 = 0
    /\ user_budget = [monthly_budget_aud |-> 0, current_spend_aud |-> 0]
    /\ current_user = [can_generate_images |-> FALSE, has_department |-> TRUE]
    /\ request_data = [prompt |-> BenignPrompt, quality |-> "standard",
                       num_images |-> 1, preferred_provider |-> None,
                       max_cost_aud |-> None]
    /\ req = [r \in Requests |-> [NewRequest EXCEPT !.pc = "idle"]]

\* concurrent calls of generate_image against one department
Init == PipelineInit /\ rt = RouterIdle /\ vd = ValidatorIdle /\ SecurityIdle
    /\ ServicesIdle /\ settings = DefaultSettings
Next == \E r \in Requests : Admit(r) \/ Generate(r) \/ Respond(r)
Spec == Init /\ [][Next]_vars

\* calls of generate_image that arrive one at a time, each after the one before it
\* has ended, under either safety limit
SequentialNext ==
    \E r \in Requests :
        \/ (\A q \in Requests : q < r => req[q].pc \in {"returned", "raised"}) /\ Admit(r)
        \/ Generate(r)
        \/ Respond(r)
SequentialInit ==
    /\ PipelineInit /\ rt = RouterIdle /\ vd = ValidatorIdle /\ SecurityIdle
    /\ ServicesIdle
SequentialSpec == SequentialInit /\ [][SequentialNext]_vars

\* one call of ModelRouter.generate
RouterSpecInit == PipelineIdle /\ RouterInit /\ vd = ValidatorIdle /\ SecurityIdle
    /\ ServicesIdle
RouterNext == RouterGenerate
RouterSpec == RouterSpecInit /\ [][RouterNext]_vars

\* one call of PromptSecurityValidator.validate
ValidatorSpecInit == PipelineIdle /\ rt = RouterIdle /\ ValidatorInit /\ SecurityIdle
    /\ ServicesIdle
ValidatorNext == ValidateBasic \/ ValidatePII \/ ValidateContent \/ ValidateFinish
ValidatorSpec == ValidatorSpecInit /\ [][ValidatorNext]_vars

\* one call of ContentFilter.filter
FilterSpecInit ==
    /\ PipelineIdle /\ rt = RouterIdle /\ vd = ValidatorIdle
    /\ FilterInit /\ pd = DetectIdle /\ cc = CardIdle /\ rp = RetryIdle /\ ServicesIdle
FilterNext == Filter
FilterSpec == FilterSpecInit /\ [][FilterNext]_vars

\* one call of PIIDetector.detect
DetectSpecInit ==
    /\ PipelineIdle /\ rt = RouterIdle /\ vd = ValidatorIdle
    /\ cf = FilterIdle /\ DetectInit /\ cc = CardIdle /\ rp = RetryIdle /\ ServicesIdle
DetectNext == Detect
DetectSpec == DetectSpecInit /\ [][DetectNext]_vars

\* one call of PIIDetector._calculate_confidence for a credit card match
CardSpecInit ==
    /\ PipelineIdle /\ rt = RouterIdle /\ vd = ValidatorIdle
    /\ cf = FilterIdle /\ pd = DetectIdle /\ CardInit /\ rp = RetryIdle /\ ServicesIdle
CardNext == CalculateConfidence
CardSpec == CardSpecInit /\ [][CardNext]_vars

\* one call of a function decorated with a retry policy
RetrySpecInit ==
    /\ PipelineIdle /\ rt = RouterIdle /\ vd = ValidatorIdle
    /\ cf = FilterIdle /\ pd = DetectIdle /\ cc = CardIdle /\ RetryInit /\ ServicesIdle
RetryNext == AttemptReturns \/ AttemptFails
RetrySpec == RetrySpecInit /\ [][RetryNext]_vars

\* one call of a provider's generate(): the provider, the images asked for, whether
\* DALL-E supports the size, timeout_seconds of the SDXLProvider, whether the
\* FireflyProvider holds a valid token
ProviderSpecInit ==
    /\ PipelineIdle /\ rt = RouterIdle /\ vd = ValidatorIdle /\ SecurityIdle
    /\ ub = BudgetIdle /\ rl = RateLimitIdle
    /\ \E p \in Registrable, n \in 1..MaxImages, size \in BOOLEAN,
          t \in {0, 5, 9, 5 * MaxPolls}, tok \in BOOLEAN :
        /\ p # "azure_openai_dalle3" => size
        /\ p # "replicate_sdxl" => t = 0
        /\ p # "adobe_firefly" => ~tok
        /\ pg = [ProviderIdle EXCEPT !.pc = "call", !.provider = p, !.num_images = n,
                                     !.supported_size = size, !.timeout_seconds = t,
                                     !.token_cached = tok]
ProviderNext == Dalle3Generate \/ FireflyGenerate \/ SdxlCreate \/ SdxlPoll
ProviderSpec == ProviderSpecInit /\ [][ProviderNext]_vars
\* the event loop runs every awaited call to its end
ProviderFairSpec == ProviderSpec /\ WF_vars(ProviderNext)

\* concurrent calls of the BudgetService for one user, the table empty at first
BudgetSpecInit ==
    /\ PipelineIdle /\ rt = RouterIdle /\ vd = ValidatorIdle /\ SecurityIdle
    /\ pg = ProviderIdle /\ ub = BudgetIdle /\ rl = RateLimitIdle
BudgetSpec ==
    BudgetSpecInit /\ [][\E s \in Sessions : GetOrCreate(s) \/ update_user_budget(s)]_vars

\* concurrent requests of one identifier within one window, the key absent at first
RateLimitSpecInit ==
    /\ PipelineIdle /\ rt = RouterIdle /\ vd = ValidatorIdle /\ SecurityIdle
    /\ pg = ProviderIdle /\ ub = BudgetIdle
    \* the limit of the identifier's tier (settings.RATE_LIMIT_STANDARD and the like)
    /\ \E limit \in {1, 2} :
          rl = [RateLimitIdle EXCEPT
                  !.limit = limit,
                  !.calls = [c \in 1..MaxCalls |-> [@[c] EXCEPT !.pc = "new"]]]
RateLimitSpec ==
    RateLimitSpecInit
    /\ [][(\E c \in 1..MaxCalls : CheckRateLimit(c) \/ CallNext(c)) \/ WindowExpires]_vars

-----------------------------------------------------------------------------
(* Claims *)

RECURSIVE CommittedCost(_)
\* the actual cost of the calls 1..n that completed a generation
CommittedCost(n) ==
    IF n = 0 THEN 0
    ELSE (IF req[n].success THEN req[n].cost_aud ELSE 0)
         + CommittedCost(n - 1)

Finished(r) == req[r].pc \in {"returned", "raised"}

\* C1: when N concurrent calls have committed their spend against the same
\* department, the persisted spend is the initial spend plus the sum of the
\* committed amounts (no update is lost).
C1_NoLostUpdate ==
    (current_user.has_department /\ \A r \in Requests : Finished(r))
        => department.current_spend_aud = spend0 + CommittedCost(MaxRequests)

\* a call that got as far as the department budget check
ReachedBudgetCheck(r) ==
    /\ req[r].pc # "new"
    /\ req[r].http \notin {403, 400}
    /\ current_user.has_department

\* C2: a request of a requester with a department is rejected at the budget check
\* (402, no generation record, no provider invoked) exactly when the mode is hard
\* and current_spend + estimated_cost > monthly_budget; under soft and warn, and
\* under hard within the budget, it is admitted: the generation record exists.
C2_HardRejectsExactlyWhenOver ==
    \A r \in Requests :
        ReachedBudgetCheck(r) =>
            /\ (req[r].http = 402) <=>
                   (/\ department.enforcement = "hard"
                    /\ req[r].snapshot + req[r].estimated_cost
                           > department.monthly_budget_aud)
            /\ req[r].http = 402 => (req[r].status = "none" /\ req[r].invoked = <<>>)
            /\ req[r].http # 402 => req[r].status # "none"

\* C2 witness: one call rejected under hard enforcement while another call of the
\* same cost was admitted before it
C2_Witness ==
    \E r, q \in Requests :
        /\ ReachedBudgetCheck(r) /\ req[r].http = 402 /\ req[r].estimated_cost > 0
        /\ req[q].status = "COMPLETED"

\* the registered providers whose estimate is within the supplied ceiling
WithinCeiling(registry, est, max_cost) ==
    {p \in Range(registry) : IsNone(max_cost) \/ est[p] <= Val(max_cost)}

\* C3: the provider the router invokes has an estimate within the supplied ceiling
\* (0 included); when no registered provider has, none is invoked and the result
\* has success = false.
C3_NeverOverCeiling ==
    (rt.pc = "returned" /\ ~IsNone(rt.max_cost)) =>
        /\ \A i \in 1..Len(rt.invoked) : rt.est[rt.invoked[i]] <= Val(rt.max_cost)
        /\ WithinCeiling(rt.registry, rt.est, rt.max_cost) = {}
               => (rt.invoked = <<>> /\ ~rt.success)

\* C4: a registered preferred provider whose estimate is within the ceiling, or
\* which is asked for without a ceiling, is the one provider invoked.
C4_PreferredIsInvoked ==
    (/\ rt.pc = "returned"
     /\ ~IsNone(rt.preferred)
     /\ Val(rt.preferred) \in WithinCeiling(rt.registry, rt.est, rt.max_cost))
        => rt.invoked = <<Val(rt.preferred)>>

\* position of provider p in the registry
Position(registry, p) == CHOOSE i \in 1..Len(registry) : registry[i] = p

\* the provider of S with the lowest estimate, the first registered among equals
FirstCheapest(registry, est, S) ==
    CHOOSE p \in S :
        \A q \in S : \/ est[p] < est[q]
                     \/ (est[p] = est[q] /\ Position(registry, p) <= Position(registry, q))

\* C5: when the router does not use the preferred provider and some registered
\* provider is within the ceiling, it invokes the one of them with the lowest
\* estimate, the first registered among those that share the lowest estimate.
C5_CheapestFirstRegistered ==
    (/\ rt.pc = "returned"
     /\ rt.path # "preferred"
     /\ WithinCeiling(rt.registry, rt.est, rt.max_cost) # {})
        => rt.invoked = <<FirstCheapest(rt.registry, rt.est,
                                        WithinCeiling(rt.registry, rt.est, rt.max_cost))>>

\* C5 witness: automatic selection among three providers within a ceiling, two of
\* which share the lowest estimate; the first registered of the two was invoked
C5_Witness ==
    /\ rt.pc = "returned" /\ rt.path = "auto"
    /\ rt.registry = RegistrationOrder
    /\ ~IsNone(rt.max_cost) /\ Val(rt.max_cost) > 0
    /\ rt.est["azure_openai_dalle3"] > Val(rt.max_cost)
    /\ rt.est["replicate_sdxl"] = rt.est["adobe_firefly"]
    /\ rt.invoked = <<"replicate_sdxl">>

\* C6: a provider is invoked only for a prompt the validator does not block
\* (production settings).
C6_BlockedPromptNeverReachesProvider ==
    \A r \in Requests :
        req[r].invoked # <<>> => FinalAction(request_data.prompt, DefaultConfig) # "block"

\* C7: under hard enforcement no provider is invoked when the estimated cost
\* exceeds the requester's user budget, also when the requester's department
\* budget admits the request.
C7_UserBudgetHonoured ==
    \A r \in Requests :
        (/\ req[r].invoked # <<>>
         /\ current_user.has_department
         /\ department.enforcement = "hard")
            => ~check_budget_exceeded(user_budget, req[r].estimated_cost)

\* C8: a budget of 0 is unlimited at its level: a department with monthly budget 0
\* never rejects at the budget check, and a user budget of 0 never reports exceeded.
C8_ZeroBudgetIsUnlimited ==
    \A r \in Requests :
        /\ department.monthly_budget_aud = 0 => req[r].http # 402
        /\ user_budget.monthly_budget_aud = 0
               => ~check_budget_exceeded(user_budget, req[r].estimated_cost)

\* C9: the step in which a generation completes raises the department's persisted
\* spend by exactly the outcome's actual cost, whatever the mode and the allocation.
C9_CommitAddsActualCost ==
    [][\A r \in Requests :
          (/\ current_user.has_department
           /\ req[r].status # "COMPLETED"
           /\ req'[r].status = "COMPLETED")
              => department'.current_spend_aud
                     = department.current_spend_aud + req'[r].cost_aud]_vars

\* allow < warn < block
Severity(a) == CASE a = "allow" -> 0 [] a = "warn" -> 1 [] a = "block" -> 2

\* the action each step of validate() asks for
BasicContribution(prompt) ==
    IF BasicIssues(prompt, MIN_LENGTH, MAX_LENGTH) # <<>> THEN "block" ELSE "allow"
PIIContribution(prompt, cfg) ==
    IF ~cfg.enable_pii THEN "allow"
    ELSE IF cfg.pii_raises THEN (IF cfg.strict_mode THEN "block" ELSE "allow")
    ELSE IF ~contains_pii(prompt.pii) \/ cfg.pii_action = "anonymize" THEN "allow"
    ELSE cfg.pii_action
ContentContribution(prompt, cfg) ==
    IF cfg.content_raises THEN (IF cfg.strict_mode THEN "block" ELSE "allow")
    ELSE ContentAction(prompt, MAX_LENGTH)

\* C10: the final action of validate() is the most severe (allow < warn < block) of
\* the actions of the structural checks, the PII step and the content-filter step.
C10_FinalActionIsMaximum ==
    vd.pc = "done" =>
        LET contributions == {BasicContribution(vd.prompt),
                              PIIContribution(vd.prompt, vd.cfg),
                              ContentContribution(vd.prompt, vd.cfg)}
        IN /\ vd.action \in contributions
           /\ \A a \in contributions : Severity(a) <= Severity(vd.action)

\* the step of validate() that found PII under PII_ACTION = "block"
PIIBlocked ==
    "pii_detected" \in Range(vd.issues) /\ vd.cfg.pii_action = "block"

\* C11 (as stated): whenever the final action is block, validate() raises
\* PIIDetectedError or ContentViolationError instead of returning a result, and it
\* raises PIIDetectedError when PII was found under PII_ACTION = "block".
C11_BlockAlwaysRaises ==
    (vd.pc = "done" /\ vd.action = "block") =>
        /\ vd.outcome \in {"PIIDetectedError", "ContentViolationError"}
        /\ PIIBlocked => vd.outcome = "PIIDetectedError"

\* C11 (amended): on a final action of block, validate() raises PIIDetectedError
\* when PII was found under PII_ACTION = "block", else ContentViolationError when
\* the content filter reported violations; a block that comes only from the
\* structural checks or from a detector failure in strict mode is returned as a
\* result with action block.
C11_BlockRaisesForPIIOrContent ==
    (vd.pc = "done" /\ vd.action = "block") =>
        vd.outcome =
            IF PIIBlocked THEN "PIIDetectedError"
            ELSE IF "content_violation" \in Range(vd.issues) THEN "ContentViolationError"
            ELSE "returned"

\* C11 witness: a prompt with null bytes and nothing else wrong ends with action
\* block, and the result is returned
C11_Witness ==
    /\ vd.pc = "done" /\ vd.action = "block" /\ vd.outcome = "returned"
    /\ "null_bytes" \in Range(vd.issues)
    /\ ~PIIBlocked /\ "content_violation" \notin Range(vd.issues)

\* validate() ended after detector failures in strict mode: the error issues are
\* recorded and the final action is block
StrictFailureBlocks ==
    /\ (vd.cfg.strict_mode /\ vd.cfg.enable_pii /\ vd.cfg.pii_raises)
           => ("pii_detection_error" \in Range(vd.issues) /\ vd.action = "block")
    /\ (vd.cfg.strict_mode /\ vd.cfg.content_raises)
           => ("content_filter_error" \in Range(vd.issues) /\ vd.action = "block")

\* a step in which a detector fails outside strict mode goes on to the next step
\* with the issues and the action it found
LenientFailureContinues ==
    /\ (vd.pc = "pii" /\ ~vd.cfg.strict_mode /\ vd.cfg.enable_pii /\ vd.cfg.pii_raises)
           => (vd'.pc = "content" /\ vd'.issues = vd.issues /\ vd'.action = vd.action)
    /\ (vd.pc = "content" /\ ~vd.cfg.strict_mode /\ vd.cfg.content_raises)
           => (vd'.pc = "final" /\ vd'.issues = vd.issues /\ vd'.action = vd.action)

\* C12: a detector that raises during validate() adds, in strict mode, its error
\* issue and the final action is block; outside strict mode the step that failed
\* adds no issue and leaves the action as it was, and validation goes on.
C12_DetectorFailure ==
    /\ [](vd.pc = "done" => StrictFailureBlocks)
    /\ [][LenientFailureContinues]_vars

\* the characters of the original text left in an anonymized text, in order
KeptCharacters(anonymized) ==
    LET IsChar(c) == c.type = "char" IN SelectSeq(anonymized, IsChar)

\* the characters of the text outside every detected span, in order
OutsideSpans(text, detections) ==
    LET Outside(c) == \A i \in 1..Len(detections) :
                         ~(detections[i].start < c.k /\ c.k <= detections[i].end)
    IN SelectSeq(text, Outside)

\* the placeholder of type t stands whole somewhere in the anonymized text
HasPlaceholder(anonymized, t) ==
    \E i \in 1..Len(anonymized) :
        /\ i + PlaceholderLen - 1 <= Len(anonymized)
        /\ SubSeq(anonymized, i, i + PlaceholderLen - 1) = Placeholder(t)

\* C13: the anonymized text of detect() holds no character of a detected span, holds
\* the placeholder of every detection, and keeps the text outside the spans unchanged
\* and in order, also when spans coincide, overlap or are nested
C13_AnonymizedHidesEverySpan ==
    (pd.pc = "done" /\ pd.anonymized_text # None) =>
        /\ KeptCharacters(Val(pd.anonymized_text)) = OutsideSpans(pd.text, pd.detections)
        /\ \A i \in 1..Len(pd.detections) :
              HasPlaceholder(Val(pd.anonymized_text), pd.detections[i].type)

\* a prompt that matches 'ignore previous instructions' and triggers no other
\* violation, checked by a validator whose detectors work
OnlyIgnorePrevious ==
    /\ vd.prompt.matches = {"ignore_previous"}
    /\ vd.prompt.pii = <<>>
    /\ BasicIssues(vd.prompt, MIN_LENGTH, MAX_LENGTH) = <<>>
    /\ ~vd.cfg.pii_raises /\ ~vd.cfg.content_raises

\* C14: for a prompt that only matches the 'ignore previous instructions' pattern the
\* content filter reports a prompt_injection violation with action block, and
\* validate() raises ContentViolationError
C14_InjectionIsBlocked ==
    (vd.pc = "done" /\ OnlyIgnorePrevious) =>
        /\ \E i \in 1..Len(Violations(vd.prompt, MAX_LENGTH)) :
              Violations(vd.prompt, MAX_LENGTH)[i].type = "prompt_injection"
        /\ ContentAction(vd.prompt, MAX_LENGTH) = "block"
        /\ vd.outcome = "ContentViolationError"

RECURSIVE WeightedSum(_)
\* the sum of severity weight x confidence over the violations, in ten-thousandths
WeightedSum(vs) ==
    IF vs = <<>> THEN 0
    ELSE SeverityWeight(Head(vs).severity) * Head(vs).confidence + WeightedSum(Tail(vs))

\* riskScore >= t hundredths for riskScore = WeightedSum / max(1, number of violations)
RiskScoreAtLeast(vs, t) ==
    WeightedSum(vs) >= t * 100 * (IF Len(vs) > 1 THEN Len(vs) ELSE 1)

\* the decision policy, evaluated in order
PolicyAction(vs) ==
    IF \E i \in 1..Len(vs) : vs[i].severity = "critical" THEN "block"
    ELSE IF RiskScoreAtLeast(vs, 75) THEN "block"
    ELSE IF RiskScoreAtLeast(vs, 40) THEN "warn"
    ELSE "allow"

\* C15: for every list of violations the action of ContentFilter.filter is the one of
\* the decision policy applied to riskScore = (sum of weight x confidence) / max(1,
\* number of violations), and is_safe is true exactly when the action is allow
C15_ActionFollowsRiskScore ==
    cf.pc = "done" =>
        /\ cf.action = PolicyAction(cf.violations)
        /\ cf.is_safe = (cf.action = "allow")

\* C16: for every text longer than max_length, filter() reports an excessive_length
\* violation and is_safe = false, whatever else the text triggers
C16_TooLongIsUnsafe ==
    (cf.pc = "done" /\ cf.text.length > MAX_LENGTH) =>
        /\ \E i \in 1..Len(cf.violations) : cf.violations[i].type = "excessive_length"
        /\ ~cf.is_safe

RECURSIVE ConfidenceTotal(_)
\* the sum of the per-detection confidences, in hundredths
ConfidenceTotal(detections) ==
    IF detections = <<>> THEN 0
    ELSE PIIConfidence(Head(detections).type) + ConfidenceTotal(Tail(detections))

\* the mean of the per-detection confidences (0 without detections) is at least the
\* threshold
MeanAtLeastThreshold(detections) ==
    IF detections = <<>> THEN 0 >= PII_DETECTION_THRESHOLD
    ELSE ConfidenceTotal(detections) >= PII_DETECTION_THRESHOLD * Len(detections)

\* C17: contains_pii of detect() is true exactly when the mean of the per-detection
\* confidences (0 without detections) is >= the threshold
C17_ContainsPIIIffMeanAtThreshold ==
    pd.pc = "done" => (pd.contains_pii <=> MeanAtLeastThreshold(pd.detections))

\* the standard Luhn sum: every second digit from the right doubled, 9 subtracted
\* from a double above 9; p counts the digits from the right, the last digit is 1
StandardLuhnTerm(number, p) ==
    LET digit == number[Len(number) - p + 1]
    IN IF p % 2 = 0
       THEN (IF 2 * digit > 9 THEN 2 * digit - 9 ELSE 2 * digit)
       ELSE digit

RECURSIVE StandardLuhnSum(_, _)
StandardLuhnSum(number, p) ==
    IF p = 0 THEN 0 ELSE StandardLuhnTerm(number, p) + StandardLuhnSum(number, p - 1)

StandardLuhn(number) == StandardLuhnSum(number, Len(number)) % 10 = 0

\* C18: the confidence of a credit card match is 0.99 when its digits satisfy the
\* standard Luhn check and 0.70 when they do not, and _validate_luhn agrees with the
\* standard check on every digit string
C18_LuhnDecidesConfidence ==
    /\ validate_luhn(cc.value) <=> StandardLuhn(cc.value)
    /\ cc.pc = "done" => cc.confidence = (IF StandardLuhn(cc.value) THEN 99 ELSE 70)

\* a number of full length that passes the check with a doubled digit above 9
C18_Witness ==
    /\ cc.pc = "done" /\ Len(cc.value) = MaxDigits
    /\ cc.value[MaxDigits - 1] > 4
    /\ StandardLuhn(cc.value) /\ cc.confidence = 99

\* a 4xx error response other than 429: validation, authentication, not found
NonRetryableClientError(failure) ==
    /\ failure.kind = "status"
    /\ 400 <= failure.status_code /\ failure.status_code < 500
    /\ failure.status_code # 429

\* retry_on_http_error, retry_openai_call and retry_azure_call
NamedPolicy == rp.policy # "retry_on_transient_error"

\* C19: under each of the three named retry policies a call that failed with a
\* non-retryable client error is not attempted again: the failure is the last one and
\* it is the exception that reaches the caller
C19_ClientErrorIsNotRetried ==
    NamedPolicy =>
        \A i \in 1..Len(rp.failures) :
            NonRetryableClientError(rp.failures[i]) =>
                (i = Len(rp.failures) /\ rp.pc = "raised" /\ rp.raised = "failure")

\* a connection error, a timeout, a 5xx response or a 429 response
Retryable(failure) ==
    \/ failure.kind \in {"connection", "timeout"}
    \/ failure.kind = "status" /\ 500 <= failure.status_code /\ failure.status_code < 600
    \/ failure.kind = "status" /\ failure.status_code = 429

\* C20: under each of the three named retry policies a call that failed with a
\* retryable failure is attempted again as long as attempts remain: the call ends
\* with such a failure only when max_attempts calls were made
C20_TransientFailureIsRetried ==
    (NamedPolicy /\ rp.pc = "raised" /\ Retryable(rp.failures[Len(rp.failures)])) =>
        rp.calls = rp.max_attempts

\* the calls made for the same operation as call i of generate()
AttemptsOf(i) ==
    Cardinality({j \in 1..Len(pg.calls) :
                    /\ pg.calls[j].op = pg.calls[i].op
                    /\ pg.calls[j].index = pg.calls[i].index})

\* C21: a transient failure of the provider's API during generate() is retried
\* against the same provider: when generate() has returned, every operation whose
\* call failed with a retryable failure was attempted max_retries times or was
\* attempted again with another outcome
C21_TransientFailureIsRetriedByProvider ==
    pg.pc = "done" =>
        \A i \in 1..Len(pg.calls) :
            (Retryable(pg.calls[i].outcome) /\ pg.calls[i].op # "poll") =>
                \/ AttemptsOf(i) >= max_retries(pg.provider)
                \/ \E j \in (i + 1)..Len(pg.calls) :
                       /\ pg.calls[j].op = pg.calls[i].op
                       /\ pg.calls[j].index = pg.calls[i].index

\* C22: a call through retry_on_transient_error(max_attempts=n, exceptions=E) makes
\* at most n calls of the function; it returns right after the first call that
\* succeeded; when it ends with a failure of a type in E, n calls were made and that
\* failure is the exception that reaches the caller
C22_TransientErrorRetriesUntilSuccessOrExhaustion ==
    rp.policy = "retry_on_transient_error" =>
        /\ rp.calls <= rp.max_attempts
        /\ rp.pc = "returned" => rp.calls = Len(rp.failures) + 1
        /\ (/\ rp.pc = "raised"
            /\ retry_if_exception_type(rp.exceptions,
                                       RetryCallState(rp.failures[Len(rp.failures)])))
              => (rp.calls = rp.max_attempts /\ rp.raised = "failure")

\* a call of the provider's API ended with a failure or with an unusable answer
SomeCallFailed ==
    \E i \in 1..Len(pg.calls) :
        pg.calls[i].outcome \in Failures \/ pg.calls[i].outcome.kind = "malformed"

PollOutcomes == [i \in 1..Polls(pg.calls) |-> pg.calls[i + 1].outcome.kind]

\* what SDXLProvider.generate has done so far agrees with the poll loop's contract
PollLoopContract ==
    LET n == Polls(pg.calls)
        last == PollOutcomes[n]
    IN /\ n <= pg.timeout_seconds \div 5
       /\ \A i \in 1..(n - 1) : PollOutcomes[i] \in {"processing", "canceled"}
       /\ (n > 0 /\ last = "succeeded") =>
              /\ pg.pc = "done" /\ pg.result.success /\ pg.result.images > 0
       /\ (n > 0 /\ last = "failed") =>
              /\ pg.pc = "done" /\ ~pg.result.success
              /\ pg.result.error_message = "failed"
       /\ (n > 0 /\ last \in {"processing", "canceled"} /\ n = pg.timeout_seconds \div 5) =>
              /\ pg.pc = "done" /\ ~pg.result.success
              /\ pg.result.error_message = "timed_out"
       /\ (n > 0 /\ last \in {"processing", "canceled"} /\ n < pg.timeout_seconds \div 5) =>
              pg.pc = "poll"

\* C29: SDXLProvider.generate ends, after at most timeout_seconds // 5 polls: with
\* success at the first poll that reports 'succeeded' with images, with a failure at
\* the first poll that reports 'failed', and with the failure 'timed out' when the
\* polls are used up and none of them produced images
C29_PollLoopTerminatesWithinBudget ==
    /\ [](pg.provider = "replicate_sdxl" => PollLoopContract)
    /\ <>(pg.provider = "replicate_sdxl" => pg.pc = "done")

\* every poll the timeout allows was made and the prediction was still processing
C29_Witness ==
    /\ pg.pc = "done" /\ pg.provider = "replicate_sdxl"
    /\ pg.timeout_seconds = 5 * MaxPolls /\ Polls(pg.calls) = MaxPolls
    /\ PollOutcomes[MaxPolls] = "processing"
    /\ pg.result.error_message = "timed_out"

\* C24: a provider is invoked only when its own estimate for the request is within
\* MAX_COST_PER_IMAGE_AUD * num_images; a request whose estimate exceeds that limit
\* is rejected with 400 before a generation record exists
C24_InvokedProviderWithinSafetyLimit ==
    \A r \in Requests :
        /\ \A i \in 1..Len(req[r].invoked) :
              ~ExceedsSafetyLimit(Estimates(request_data)[req[r].invoked[i]], request_data)
        /\ req[r].http = 400 => (req[r].status = "none" /\ req[r].invoked = <<>>)

\* C25: the cost a call commits never exceeds the estimate it checked against the
\* department budget; hence under hard enforcement, with calls served one at a time,
\* the department's persisted spend never exceeds its monthly budget
C25_ActualCostWithinCheckedEstimate ==
    /\ \A r \in Requests : req[r].success => req[r].cost_aud <= req[r].estimated_cost
    /\ (current_user.has_department /\ department.enforcement = "hard")
           => department.current_spend_aud <= department.monthly_budget_aud

RECURSIVE ReturnedCost(_)
\* the actual cost of the calls 1..n that returned their images to the requester
ReturnedCost(n) ==
    IF n = 0 THEN 0
    ELSE (IF req[n].pc = "returned" THEN req[n].cost_aud ELSE 0) + ReturnedCost(n - 1)

\* C26: a call of generate_image that does not complete successfully leaves the
\* department's persisted spend as it was: with calls served one at a time, once no
\* call is under way the spend is the initial spend plus the costs of the calls that
\* returned successfully
C26_FailedCallLeavesSpendUnchanged ==
    (/\ current_user.has_department
     /\ \A r \in Requests : req[r].pc \in {"new", "returned", "raised"})
        => department.current_spend_aud = spend0 + ReturnedCost(MaxRequests)

\* C28: a generation record is created PROCESSING; when its call has returned or
\* raised it is COMPLETED or FAILED; it is COMPLETED only when the provider reported
\* success; and a record that is COMPLETED stays COMPLETED
C28_StatusMovesForwardOnly ==
    /\ [](\A r \in Requests :
            /\ (Finished(r) /\ req[r].status # "none")
                   => req[r].status \in {"COMPLETED", "FAILED"}
            /\ req[r].status = "COMPLETED" => req[r].success)
    /\ [][\A r \in Requests :
            /\ (req[r].status = "none" /\ req'[r].status # "none")
                   => req'[r].status = "PROCESSING"
            /\ req[r].status = "COMPLETED" => req'[r].status = "COMPLETED"]_vars

\* C27: whatever BudgetService calls have run, in whatever interleaving, the table
\* holds at most one row of the user for each month
C27_OneBudgetRowPerUserAndMonth ==
    \A month \in Months : Cardinality(Selected(ub.rows, month, FALSE)) <= 1

\* the requests of the identifier that reached the downstream handler
Processed == {c \in 1..MaxCalls : rl.calls[c].handled > 0}

\* C30: a request of an identifier that has already used its `limit` requests in the
\* current one-hour window is answered with 429 without being passed to the
\* downstream handler, so at most `limit` requests of the identifier are processed
\* by the application within one window
C30_RefusedRequestNeverReachesHandler ==
    /\ \A c \in 1..MaxCalls :
          /\ rl.calls[c].status_code = 429 => rl.calls[c].handled = 0
          /\ (/\ rl.calls[c].pc = "done"
              /\ ~IsNone(rl.calls[c].current)
              /\ Val(rl.calls[c].current) >= rl.limit) => rl.calls[c].status_code = 429
    /\ Cardinality(Processed) <= rl.limit

\* the Redis client never raised and each request was answered before the next one
\* arrived, and yet more requests than the limit reached the handler
C30_HandlerRanForRefusedRequest ==
    /\ \A c \in 1..MaxCalls : rl.calls[c].pc = "done" /\ rl.calls[c].handled = 1
    /\ \E c \in 1..MaxCalls : rl.calls[c].status_code = 429
    /\ \A c \in 1..MaxCalls :
          rl.calls[c].status_code = IF IsNone(rl.calls[c].current)
                                       \/ Val(rl.calls[c].current) < rl.limit
                                    THEN 200 ELSE 429
    /\ ~IsNone(rl.key) /\ Val(rl.key) = rl.limit
    /\ Cardinality(Processed) > rl.limit

====
